---- MODULE Spec2Model ----
(***************************************************************************)
(* Funding-arbitrage bot: the monitor loop of TradingBot                   *)
(* (src/funding_arbitrage_bot.py) and the part of BybitClient              *)
(* (src/bybit_client.py) it calls.                                         *)
(*                                                                         *)
(* Units.  Funding rates are integers in units of 1/RateScale, prices and  *)
(* sizes are integers, times are integer seconds.  Money (PnL) is kept in  *)
(* units of 1/RateScale USDT so that |rate| * price * size and             *)
(* (exit - entry) * size add up exactly; float rounding is not modelled.   *)
(***************************************************************************)
EXTENDS Integers, Sequences, FiniteSets, TLC

----------------------------------------------------------------------------
(* Configuration (environment-derived in the source; scaled values).       *)

\* 1 / RateScale is the unit of a funding rate: 10 stands for 0.0001.
RateScale == 100000

\* MIN_FUNDING_RATE, default 0.0001.
MIN_FUNDING_RATE == 10

\* TOP_PAIRS_COUNT, default 20; 2 with the two symbols of the loop model.
TOP_PAIRS_COUNT == 2

\* SECONDS_BEFORE_FUNDING, default 10.
SECONDS_BEFORE_FUNDING == 2

\* SECONDS_AFTER_FUNDING_TO_CLOSE, default 30.
SECONDS_AFTER_FUNDING_TO_CLOSE == 1

\* TRADE_AMOUNT_USDT, default 10.
TRADE_AMOUNT_USDT == 4

----------------------------------------------------------------------------
(* Helpers.                                                                *)

Abs(x) == IF x < 0 THEN -x ELSE x

Range(s) == {s[i] : i \in 1..Len(s)}

\* The sequence s without its element at index i.
RemoveAt(s, i) == [k \in 1..(Len(s) - 1) |-> IF k < i THEN s[k] ELSE s[k + 1]]

\* Lexicographic rank of a symbol name ("A" < "B" < "C").
SymbolRank(s) == CASE s = "A" -> 1 [] s = "B" -> 2 [] s = "C" -> 3

NoTicker == [ok |-> FALSE, fundingRate |-> 0, nextFundingTime |-> 0]

----------------------------------------------------------------------------
(* BybitClient.get_funding_rates: one ticker per symbol of symbols_info,   *)
(* in the order of that dict; rows with a failed call, a zero rate or a    *)
(* zero funding time are dropped; the frame is sorted by nextFundingTime.  *)

\* The row the client appends for a ticker.
FundingRow(sym, tk) ==
    [symbol |-> sym, predictedRate |-> tk.fundingRate,
     nextFundingTime |-> tk.nextFundingTime]

\* bybit_client.py:166-173: retCode == 0, a non-empty list, and valid data.
TickerValid(tk) == tk.ok /\ tk.nextFundingTime > 0 /\ tk.fundingRate # 0

\* all_funding_data: the valid rows in the order of `symbols`.
RECURSIVE AllFundingData(_, _)
AllFundingData(symbols, tickers) ==
    IF symbols = <<>> THEN <<>>
    ELSE LET s == Head(symbols)
             rest == AllFundingData(Tail(symbols), tickers)
         IN IF TickerValid(tickers[s])
               THEN <<FundingRow(s, tickers[s])>> \o rest
               ELSE rest

\* df.sort_values("nextFundingTime"): the default sort is not stable, so rows
\* with equal funding times may come out in any order.
SortValues(rows) ==
    LET n == Len(rows)
        perms == {p \in [1..n -> 1..n] : \A i, j \in 1..n : i # j => p[i] # p[j]}
    IN {[k \in 1..n |-> rows[p[k]]] : p \in
          {q \in perms : \A i, j \in 1..n :
              i < j => rows[q[i]].nextFundingTime <= rows[q[j]].nextFundingTime}}

\* The frames get_funding_rates can return for these tickers.
GetFundingRates(symbols, tickers) == SortValues(AllFundingData(symbols, tickers))

----------------------------------------------------------------------------
(* Ranking in TradingBot.monitor_funding_rates (lines 421-429).            *)

AbsRate(row) == Abs(row.predictedRate)

Mut_RateFilter(row, minRate) == AbsRate(row) > minRate

\* funding_df["abs_rate"] >= MIN_FUNDING_RATE
RateFilter(row, minRate) == AbsRate(row) >= minRate

\* funding_df[funding_df["abs_rate"] >= minRate]: a filter keeps row order.
FilteredDf(df, minRate) == SelectSeq(df, LAMBDA row : RateFilter(row, minRate))

\* Index of the first row holding the largest abs_rate (keep = "first").
ArgMaxFirst(df) ==
    CHOOSE i \in 1..Len(df) :
        /\ \A j \in 1..Len(df) : AbsRate(df[j]) <= AbsRate(df[i])
        /\ \A j \in 1..(i - 1) : AbsRate(df[j]) < AbsRate(df[i])

Mut_NLargest(n, df) == df

\* DataFrame.nlargest(n, "abs_rate"): the n rows with the largest abs_rate in
\* descending order; among equal values the rows that come first in the frame,
\* in frame order.
RECURSIVE NLargest(_, _)
NLargest(n, df) ==
    IF n = 0 \/ df = <<>> THEN <<>>
    ELSE LET i == ArgMaxFirst(df)
         IN <<df[i]>> \o NLargest(n - 1, RemoveAt(df, i))

\* top_pairs_df of one cycle.
TopPairs(df, minRate, n) == NLargest(n, FilteredDf(df, minRate))

\* The other monitor loop of the repository (src/src/funding_arbitrage_bot.py,
\* lines 349-362) ranks the two signs apart.

\* df.sort_values("abs_rate", ascending=False): not a stable sort, so rows of
\* equal abs_rate may come out in any order.
SortByAbsRateDesc(rows) ==
    LET n == Len(rows)
        perms == {p \in [1..n -> 1..n] : \A i, j \in 1..n : i # j => p[i] # p[j]}
    IN {[k \in 1..n |-> rows[p[k]]] : p \in
          {q \in perms : \A i, j \in 1..n :
              i < j => AbsRate(rows[q[i]]) >= AbsRate(rows[q[j]])}}

\* DataFrame.head(n).
HeadRows(df, n) == SubSeq(df, 1, IF n <= Len(df) THEN n ELSE Len(df))

\* top_pairs_df of the dual loop: pd.concat([top_positive, top_negative]).
DualTopPairs(df, minRate, n) ==
    LET filtered == FilteredDf(df, minRate)
        positive == SelectSeq(filtered, LAMBDA row : row.predictedRate > 0)
        negative == SelectSeq(filtered, LAMBDA row : row.predictedRate < 0)
    IN {HeadRows(ps, n) \o HeadRows(ns, n) :
           ps \in SortByAbsRateDesc(positive), ns \in SortByAbsRateDesc(negative)}

----------------------------------------------------------------------------
(* Bounds of the loop model.                                               *)

\* The clock runs from 0 to MaxTime.
MaxTime == 3

\* At most MaxOrders entry orders are accepted by the exchange.
MaxOrders == 2

\* list(self.symbols_info.keys()): the symbols the client polls, in order.
SymbolList == <<"A", "B">>

Symbols == Range(SymbolList)

\* lastPrice values the exchange reports: to the sizing call (3 gives a size
\* below minOrderQty), to the entry, and to a close (a fall and a rise).
SizingPrices == {2, 3}

EntryPrices == {2}

ExitPrices == {1, 3}

\* fundingRate values the exchange reports (0: none; 5: below the minimum).
LoopRates == {-10, 0, 5, 10}

\* nextFundingTime values the exchange reports.
LoopTimes == {1, 3}

\* What one ticker call of the poll can return for a symbol.
TickerChoices ==
    [ok : {TRUE}, fundingRate : LoopRates, nextFundingTime : LoopTimes]
        \cup {NoTicker}

\* lotSizeFilter of every symbol: minOrderQty and qtyStep.
MinOrderQty == 2

QtyStep == 2

Tasks == {"monitor", "emergency"}

----------------------------------------------------------------------------
VARIABLES
    now,                \* the clock when it was last read or waited on, seconds
    should_run,         \* TradingBot.should_run
    active_trades,      \* keys of TradingBot.active_trades, in insertion order
    trades,             \* the trade_data dict of every order id ever inserted
    total_trades, successful_trades, total_pnl,   \* statistics
    funding_df,         \* the frame polled in the current cycle
    current_time,       \* current_time of the current cycle (line 419)
    pc,                 \* per task: the await it is suspended at
    idx,                \* monitor: index of the candidate row being entered
    size, price,        \* monitor: size and entry price of the pending entry
    items,              \* per task: the list(...) snapshot it iterates over
    pos,                \* per task: index in items of the trade being closed
    cp_price,           \* per task: exit_price of the close in progress
    status_writes,      \* bot_status.json: the contents written by the latest
                        \* step that called save_status, in order; the file
                        \* holds the last of them
    refreshed,          \* observation: whether the poll of the cycle in progress
                        \* returned a frame that is not empty
    funding_collected,  \* the order ids of the Open positions of the ledger
                        \* whose trade_data has funding_collected = True
    last_sleep,         \* observation: the seconds of the asyncio.sleep the monitor
                        \* has just returned from; 0 once it has gone on
    em_open,            \* observation: the order ids Open when the emergency task
                        \* started, until their trade_data is released
    r_pc, r_symbols, r_tickers, r_min, r_n, r_df, r_top,  \* ranking harness
    clock,              \* rate limiter harness: time.time(), in ticks of 50 ms
    last_request_time,  \* BybitClient.last_request_time
    rl_pc,              \* per task: "idle", or "sleeping" inside _rate_limit_check
    rl_wake,            \* per task: the time its asyncio.sleep is due
    requests,           \* observation: the times at which requests were sent
    s_pc, s_amount, s_price, s_min, s_step, s_size   \* sizing harness

loopVars == <<now, should_run, active_trades, trades, total_trades,
              successful_trades, total_pnl, funding_df, current_time, pc, idx,
              size, price, items, pos, cp_price, status_writes,
              refreshed, funding_collected, last_sleep, em_open>>

rankVars == <<r_pc, r_symbols, r_tickers, r_min, r_n, r_df, r_top>>

rateVars == <<clock, last_request_time, rl_pc, rl_wake, requests>>

\* The variables of the harnesses, which the trading loop leaves alone.
sizeVars == <<s_pc, s_amount, s_price, s_min, s_step, s_size>>

\* save_status and save_funding_rates on their own: the ledger, the
\* statistics and the frame they read, and the two files they write.
VARIABLES p_active_trades, p_statistics, p_funding_df, p_files

pubVars == <<p_active_trades, p_statistics, p_funding_df, p_files>>

\* update_balance on its own: self.balance, the values get_wallet_balance
\* fetched from the exchange, and the balance of every status written.
VARIABLES balance, b_fetched, b_published

balVars == <<balance, b_fetched, b_published>>

\* The Telegram process: the text of the message its handlers edit.
VARIABLES tg_message

tgVars == <<tg_message>>

\* The controller (funding_bot_controller.py) with the two processes it
\* supervises: its position, its two process handles, bot_status.json, the
\* number of statuses the trading bot has published, and the position and the
\* loaded copy of the Telegram process's save_status.
VARIABLES c_pc, telegram_process, trading_process, status_file, published,
          tg_pc, existing_status

supVars == <<c_pc, telegram_process, trading_process, status_file, published,
             tg_pc, existing_status>>

\* The exit pass of the second monitor loop
\* (src/src/funding_arbitrage_bot.py): its position, its ledger, the rest of
\* the snapshot it iterates, the symbols whose exit condition holds in the
\* cycle, the close attempts made per order id, and the cycles run.
VARIABLES d_pc, d_active_trades, d_items, d_due, d_attempts, d_cycles

dualVars == <<d_pc, d_active_trades, d_items, d_due, d_attempts, d_cycles>>

auxVars == <<pubVars, balVars, tgVars, supVars, dualVars>>

coreVars == <<loopVars, rankVars, rateVars, sizeVars>>

\* What a step of one of these harnesses leaves alone.
notPub == <<coreVars, balVars, tgVars, supVars, dualVars>>

notBal == <<coreVars, pubVars, tgVars, supVars, dualVars>>

notTg == <<coreVars, pubVars, balVars, supVars, dualVars>>

notSup == <<coreVars, pubVars, balVars, tgVars, dualVars>>

notDual == <<coreVars, pubVars, balVars, tgVars, supVars>>

harnessVars == <<rankVars, rateVars, sizeVars, auxVars>>

vars == <<loopVars, rankVars, rateVars, sizeVars, auxVars>>

----------------------------------------------------------------------------
(* BybitClient.calculate_position_size.                                    *)

Max(a, b) == IF a >= b THEN a ELSE b

Min(a, b) == IF a <= b THEN a ELSE b

\* size = amount / price; 0 below minOrderQty; rounded down to qtyStep.
CalculatePositionSize(amount, p, minQty, step) ==
    IF p = 0 THEN 0                             \* ZeroDivisionError -> 0
    ELSE IF amount < minQty * p THEN 0          \* size < min_order_qty
    ELSE Max(minQty, (amount \div (p * step)) * step)

----------------------------------------------------------------------------
(* TradingBot.open_position / close_position: the records.                 *)

\* abs(funding_rate) * price * size, in 1/RateScale USDT.
ExpectedFundingProfit(rate, p, sz) == Abs(rate) * p * sz

\* trade_data as inserted at lines 288-298 (opened_for: the funding time the
\* entry was made for; not a field of the source, kept for observation).
NewTrade(sym, sd, sz, p, rate, nft) ==
    [symbol |-> sym, side |-> sd, size |-> sz, entry_price |-> p,
     funding_rate |-> rate,
     expected_funding_profit |-> ExpectedFundingProfit(rate, p, sz),
     closed |-> FALSE,
     exit_price |-> 0, price_pnl |-> 0, total_pnl |-> 0,
     opened_for |-> nft]

Mut_PricePnl(sd, entry, exit, sz) == (exit - entry) * sz * RateScale

\* lines 353-356, in 1/RateScale USDT.
PricePnl(sd, entry, exit, sz) ==
    IF sd = "Buy" THEN (exit - entry) * sz * RateScale
    ELSE (entry - exit) * sz * RateScale

\* lines 359-361: total_pnl = price_pnl + funding_pnl.
TotalPnl(t, exit) ==
    PricePnl(t.side, t.entry_price, exit, t.size) + t.expected_funding_profit

Mut_ClosedTrade(t, exit) == [t EXCEPT !.exit_price = exit]

\* lines 370-374.
ClosedTrade(t, exit) ==
    [t EXCEPT !.closed = TRUE, !.exit_price = exit,
              !.price_pnl = PricePnl(t.side, t.entry_price, exit, t.size),
              !.total_pnl = TotalPnl(t, exit)]

\* line 338.
CloseSide(sd) == IF sd = "Buy" THEN "Sell" ELSE "Buy"

Mut_EntrySide(rate) == IF rate < 0 THEN "Sell" ELSE "Buy"

\* line 442.
EntrySide(rate) == IF rate > 0 THEN "Sell" ELSE "Buy"

----------------------------------------------------------------------------
(* The synchronous stretches of monitor_funding_rates between two awaits.  *)
(* `at` and `tr` are active_trades and trades as the running step leaves   *)
(* them; df and T are the frame and current_time of the cycle.             *)

\* lines 445-448: an entry of active_trades for the symbol that is not closed.
SymbolActive(sym, at, tr) ==
    \E o \in Range(at) : tr[o].symbol = sym /\ ~tr[o].closed

Mut_InEntryWindow(row, T) ==
    0 <= row.nextFundingTime - T /\ row.nextFundingTime - T <= SECONDS_BEFORE_FUNDING

\* line 440: 0 < time_until <= SECONDS_BEFORE_FUNDING.
InEntryWindow(row, T) ==
    0 < row.nextFundingTime - T /\ row.nextFundingTime - T <= SECONDS_BEFORE_FUNDING

Mut_EntryAllowed(row, T, at, tr) == InEntryWindow(row, T)

\* lines 440-450: the candidate is in its window and its symbol has no
\* open trade.
EntryAllowed(row, T, at, tr) ==
    InEntryWindow(row, T) /\ ~SymbolActive(row.symbol, at, tr)

Mut_NextEntry(top, k, T, at, tr) ==
    LET S == {i \in 1..Len(top) : EntryAllowed(top[i], T, at, tr)}
    IN IF k > 1 \/ S = {} THEN 0
       ELSE CHOOSE i \in S : \A j \in S : i <= j

\* The first candidate at index >= k for which the entry pass reaches the
\* await of calculate_position_size; 0 when the pass ends without one.
RECURSIVE NextEntry(_, _, _, _, _)
NextEntry(top, k, T, at, tr) ==
    IF k > Len(top) THEN 0
    ELSE IF EntryAllowed(top[k], T, at, tr) THEN k
    ELSE NextEntry(top, k + 1, T, at, tr)

\* lines 473-476: the rows of the symbol in funding_df (the unfiltered frame).
SymbolData(df, sym) == SelectSeq(df, LAMBDA row : row.symbol = sym)

Mut_ExitDueAbsent(df, sym, T) ==
    IF SymbolData(df, sym) = <<>> THEN TRUE
    ELSE SymbolData(df, sym)[1].nextFundingTime - T < -SECONDS_AFTER_FUNDING_TO_CLOSE

Mut_ExitDue(df, sym, T) ==
    /\ SymbolData(df, sym) # <<>>
    /\ SymbolData(df, sym)[1].nextFundingTime - T <= -SECONDS_AFTER_FUNDING_TO_CLOSE

\* lines 475-480: the symbol is in the frame and
\* time_until < -SECONDS_AFTER_FUNDING_TO_CLOSE.
ExitDue(df, sym, T) ==
    /\ SymbolData(df, sym) # <<>>
    /\ SymbolData(df, sym)[1].nextFundingTime - T < -SECONDS_AFTER_FUNDING_TO_CLOSE

\* lines 466-485 up to the first await inside close_position: the index in
\* its of the first trade at index >= k whose close reaches get_ticker, 0 when
\* there is none.  (Line 482 sets funding_collected, which is
\* kept apart from the records: see MarkFundingCollected.)
RECURSIVE ExitScan(_, _, _, _, _, _)
ExitScan(its, k, df, T, at, tr) ==
    IF k > Len(its) THEN 0
    ELSE LET o == its[k]
         IN IF /\ ~tr[o].closed
               /\ ExitDue(df, tr[o].symbol, T)
               /\ o \in Range(at)
               THEN k
               ELSE ExitScan(its, k + 1, df, T, at, tr)

\* lines 504-506 with 327-329: the first order id at index >= k that is still
\* a key of active_trades (for the others close_position returns at once).
RECURSIVE EmergencyScan(_, _, _)
EmergencyScan(its, k, at) ==
    IF k > Len(its) THEN 0
    ELSE IF its[k] \in Range(at) THEN k
    ELSE EmergencyScan(its, k + 1, at)

\* The exit pass from index k of its on: to the next close, or to the awaits of
\* lines 491-494, where the frame of the cycle is dead.
GoExit(its, k, df, T, at, tr) ==
    LET j == ExitScan(its, k, df, T, at, tr)
    IN /\ trades' = tr
       /\ active_trades' = at
       /\ items' = [items EXCEPT !["monitor"] = IF j = 0 THEN <<>> ELSE its]
       /\ pos' = [pos EXCEPT !["monitor"] = j]
       /\ pc' = [pc EXCEPT !["monitor"] = IF j = 0 THEN "sleep" ELSE "cp_ticker"]
       /\ funding_df' = IF j = 0 THEN <<>> ELSE df
       /\ current_time' = IF j = 0 THEN 0 ELSE T
       /\ idx' = 0 /\ size' = 0 /\ price' = 0

\* The entry pass from candidate k on: to the next entry, or into the exit
\* pass over list(self.active_trades.items()).
GoEntry(k, df, T, at, tr) ==
    LET top == TopPairs(df, MIN_FUNDING_RATE, TOP_PAIRS_COUNT)
        i == NextEntry(top, k, T, at, tr)
    IN IF i # 0
          THEN /\ idx' = i /\ size' = 0 /\ price' = 0
               /\ pc' = [pc EXCEPT !["monitor"] = "size"]
               /\ trades' = tr /\ active_trades' = at
               /\ funding_df' = df /\ current_time' = T
               /\ UNCHANGED <<items, pos>>
          ELSE GoExit(at, 1, df, T, at, tr)

\* emergency_close_all_positions from index k of its on: to the next close, or
\* to the await of the final notification (line 510).
GoEmergency(its, k, at, tr) ==
    LET j == EmergencyScan(its, k, at)
    IN /\ trades' = tr
       /\ active_trades' = at
       /\ items' = [items EXCEPT !["emergency"] = IF j = 0 THEN <<>> ELSE its]
       /\ pos' = [pos EXCEPT !["emergency"] = j]
       /\ pc' = [pc EXCEPT !["emergency"] = IF j = 0 THEN "em_notify" ELSE "cp_ticker"]
       /\ UNCHANGED <<idx, size, price, funding_df, current_time>>

\* close_position returns to its caller, which goes on with its loop.
Return(t, at, tr) ==
    IF t = "monitor"
       THEN GoExit(items[t], pos[t] + 1, funding_df, current_time, at, tr)
       ELSE GoEmergency(items[t], pos[t] + 1, at, tr)

----------------------------------------------------------------------------
(* The exchange, as the calls of BybitClient see it.                       *)

\* The outcomes of a call: TRUE, or FALSE for get_ticker or
\* place_market_order returning None.
CallResults == {TRUE, FALSE}

stats == <<total_trades, successful_trades, total_pnl>>

cycle == <<funding_df, current_time>>

ledger == <<active_trades, trades>>

locals == <<idx, size, price, items, pos>>

TopOfCycle == TopPairs(funding_df, MIN_FUNDING_RATE, TOP_PAIRS_COUNT)

\* The trade a task is closing.
CpOid(t) == items[t][pos[t]]

----------------------------------------------------------------------------
(* TradingBot.monitor_funding_rates, one action per await.  R is the set   *)
(* of outcomes the exchange call of the step can have, TC the set of       *)
(* tickers a poll can get.                                                 *)

\* line 482: the exit pass sets trade_data["funding_collected"] = True just
\* before it calls close_position, so the flag is set in the step that takes
\* the monitor into close_position.  Nothing reads the flag; it is kept for
\* the positions that are Open in the ledger.
MarkFundingCollected ==
    funding_collected' =
        {o \in funding_collected \cup
                 (IF pc'["monitor"] = "cp_ticker"
                     THEN {items'["monitor"][pos'["monitor"]]} ELSE {}) :
            o \in Range(active_trades') /\ ~trades'[o].closed}

\* lines 126-146: status_data as save_status builds it -- every entry of
\* active_trades as it is at that moment (serialize_trade_data copies the
\* whole record, its "closed" key included), the statistics, the timestamp.
StatusData(at, tr, tt, T) ==
    [active_trades |-> [i \in 1..Len(at) |->
                          [order_id |-> at[i], closed |-> tr[at[i]].closed]],
     total_trades |-> tt,
     timestamp |-> T]

Mut_Refreshed(df) == FALSE

\* line 418: not funding_df.empty -- the refresh of the cycle gave a frame.
Refreshed(df) == df # <<>>

\* lines 416-432: the poll returns and the clock is read (line 419, the only
\* place the loop reads it: T is any time not before the last reading); an
\* empty frame, or a frame in which no rate reaches the minimum, skips both
\* passes (the exit pass of lines 466-488 is inside the block of line 428).
\* funding_df and current_time of a skipped evaluation stay as assigned until
\* the sleep returns.
MonPoll(TC) ==
    /\ pc["monitor"] = "poll"
    /\ \E T \in now..MaxTime :
         \E tickers \in [Symbols -> TC] :
            \E df \in GetFundingRates(SymbolList, tickers) :
               /\ now' = T
               /\ refreshed' = Refreshed(df)
               /\ last_sleep' = 0
               /\ IF df = <<>> \/ FilteredDf(df, MIN_FUNDING_RATE) = <<>>
                     THEN /\ pc' = [pc EXCEPT !["monitor"] = "sleep"]
                          /\ funding_df' = df
                          /\ current_time' = IF df = <<>> THEN 0 ELSE T
                          /\ UNCHANGED <<ledger, locals>>
                     ELSE GoEntry(1, df, T, active_trades, trades)
    /\ UNCHANGED <<should_run, stats, cp_price, harnessVars, status_writes, em_open>>
    /\ MarkFundingCollected

\* line 452: calculate_position_size returns (its get_ticker call made).
MonSize(R) ==
    /\ pc["monitor"] = "size"
    /\ \E ok \in R, p \in SizingPrices :
         LET sz == IF ok THEN CalculatePositionSize(TRADE_AMOUNT_USDT, p,
                                                    MinOrderQty, QtyStep)
                   ELSE 0
         IN IF sz > 0
               THEN /\ size' = sz
                    /\ pc' = [pc EXCEPT !["monitor"] = "open_ticker"]
                    /\ UNCHANGED <<ledger, cycle, idx, price, items, pos>>
               ELSE GoEntry(idx + 1, funding_df, current_time, active_trades, trades)
    /\ UNCHANGED <<now, should_run, stats, cp_price, harnessVars, last_sleep, refreshed, status_writes, em_open>>
    /\ MarkFundingCollected

\* lines 276-281: get_ticker of open_position returns.
MonOpenTicker(R) ==
    /\ pc["monitor"] = "open_ticker"
    /\ \E ok \in R, p \in EntryPrices :
         IF ok
            THEN /\ price' = p
                 /\ pc' = [pc EXCEPT !["monitor"] = "open_order"]
                 /\ UNCHANGED <<ledger, cycle, idx, size, items, pos>>
            ELSE GoEntry(idx + 1, funding_df, current_time, active_trades, trades)
    /\ UNCHANGED <<now, should_run, stats, cp_price, harnessVars, last_sleep, refreshed, status_writes, em_open>>
    /\ MarkFundingCollected

\* lines 284-298: place_market_order returns; on success the trade is inserted
\* under the new order id.
MonOpenOrder(R) ==
    /\ pc["monitor"] = "open_order"
    /\ LET row == TopOfCycle[idx]
       IN \E ok \in R :
            /\ ok => Len(trades) < MaxOrders
            /\ IF ok
                  THEN /\ trades' = Append(trades,
                              NewTrade(row.symbol, EntrySide(row.predictedRate),
                                       size, price, row.predictedRate,
                                       row.nextFundingTime))
                       /\ active_trades' = Append(active_trades, Len(trades) + 1)
                       /\ pc' = [pc EXCEPT !["monitor"] = "open_notify"]
                       /\ UNCHANGED <<locals, cycle>>
                  ELSE GoEntry(idx + 1, funding_df, current_time, active_trades, trades)
    /\ UNCHANGED <<now, should_run, stats, cp_price, harnessVars, last_sleep, refreshed, status_writes, em_open>>
    /\ MarkFundingCollected

\* lines 304-315: the notification is sent, the status saved; next candidate.
MonOpenNotify ==
    /\ pc["monitor"] = "open_notify"
    /\ GoEntry(idx + 1, funding_df, current_time, active_trades, trades)
    /\ status_writes' = <<StatusData(active_trades, trades, total_trades, now)>>
    /\ UNCHANGED <<now, should_run, stats, cp_price, harnessVars, last_sleep, refreshed, em_open>>
    /\ MarkFundingCollected

\* line 494: asyncio.sleep(5), the sleep that ends every cycle that raised no
\* exception.
SLEEP_SECONDS == 5

\* line 498: asyncio.sleep(30), in the except branch of the loop.  No call of
\* the loop body raises (each catches its exceptions and returns a value), so
\* no step of the monitor takes that branch.
ERROR_SLEEP_SECONDS == 30

Mut_LoopTest(run) == "poll"

\* line 413: while self.should_run -- the next cycle's poll starts, or
\* monitor_funding_rates returns.
LoopTest(run) == IF run THEN "poll" ELSE "done"

\* lines 491-494 and 413: update_balance (which saves the status, line 91;
\* get_wallet_balance returns 0.0 on any error and never raises) and
\* asyncio.sleep(5) return (two
\* awaits with nothing between them that the loop reads), time has passed, and
\* the loop condition is tested.
MonSleep ==
    /\ pc["monitor"] = "sleep"
    /\ pc' = [pc EXCEPT !["monitor"] = LoopTest(should_run)]
    /\ status_writes' = <<StatusData(active_trades, trades, total_trades, now)>>
    /\ now' = Min(now + 1, MaxTime)
    /\ refreshed' = FALSE
    /\ last_sleep' = SLEEP_SECONDS
    /\ funding_df' = <<>>
    /\ current_time' = 0
    /\ UNCHANGED <<should_run, ledger, stats, locals, cp_price, harnessVars, em_open>>
    /\ MarkFundingCollected

----------------------------------------------------------------------------
(* TradingBot.close_position, run by the monitor's exit pass or by         *)
(* emergency_close_all_positions; one action per await.                    *)

\* lines 341-346: get_ticker returns.
CpTicker(t, R) ==
    /\ pc[t] = "cp_ticker"
    /\ \E ok \in R, p \in ExitPrices :
         IF ok
            THEN /\ cp_price' = [cp_price EXCEPT ![t] = p]
                 /\ pc' = [pc EXCEPT ![t] = "cp_order"]
                 /\ UNCHANGED <<ledger, cycle, locals>>
            ELSE /\ Return(t, active_trades, trades)
                 /\ UNCHANGED cp_price
    /\ UNCHANGED <<now, should_run, stats, harnessVars, last_sleep, refreshed, status_writes, em_open>>
    /\ MarkFundingCollected

\* line 365: if total_pnl > 0.
IsSuccessful(pnl) == pnl > 0

\* lines 349-374: place_market_order(reduce_only) returns; on success the
\* statistics are updated and trade_data is marked closed.
CpOrder(t, R) ==
    /\ pc[t] = "cp_order"
    /\ LET o == CpOid(t)
           td == trades[o]
       IN \E ok \in R :
            IF ok
               THEN /\ total_trades' = total_trades + 1
                    /\ successful_trades' = successful_trades +
                           (IF IsSuccessful(TotalPnl(td, cp_price[t])) THEN 1 ELSE 0)
                    /\ total_pnl' = total_pnl + TotalPnl(td, cp_price[t])
                    /\ trades' = [trades EXCEPT ![o] = ClosedTrade(td, cp_price[t])]
                    /\ pc' = [pc EXCEPT ![t] = "cp_finish"]
                    /\ UNCHANGED <<active_trades, cycle, locals, cp_price>>
               ELSE /\ Return(t, active_trades, trades)
                    /\ cp_price' = [cp_price EXCEPT ![t] = 0]
                    /\ UNCHANGED stats
    /\ UNCHANGED <<now, should_run, harnessVars, last_sleep, refreshed, status_writes, em_open>>
    /\ MarkFundingCollected

\* The keys of active_trades after del self.active_trades[o].
DelTrade(at, o) == SelectSeq(at, LAMBDA k : k # o)

\* A trade_data dict that no task refers to any more except through the
\* `closed` test of line 467: its other fields are dead and are cleared.
Released ==
    [symbol |-> "none", side |-> "none", size |-> 0, entry_price |-> 0,
     funding_rate |-> 0, expected_funding_profit |-> 0,
     closed |-> TRUE,
     exit_price |-> 0, price_pnl |-> 0, total_pnl |-> 0, opened_for |-> 0]

\* Whether a task other than t is inside close_position for order id o.
ClosingElsewhere(t, o) ==
    \E u \in Tasks \ {t} :
        pc[u] \in {"cp_ticker", "cp_order", "cp_finish"} /\ CpOid(u) = o

\* lines 382-400: the notification is sent and update_balance returns (two
\* awaits with nothing between them), saving the status at line 91; the trade
\* is deleted from active_trades (a KeyError when it is gone already ends the
\* call at 405-407) and the status is saved again at line 398.
CpFinish(t) ==
    /\ pc[t] = "cp_finish"
    /\ LET o == CpOid(t)
       IN Return(t, DelTrade(active_trades, o),
                 IF ClosingElsewhere(t, o) THEN trades
                 ELSE [trades EXCEPT ![o] = Released])
    /\ cp_price' = [cp_price EXCEPT ![t] = 0]
    /\ em_open' = IF ClosingElsewhere(t, CpOid(t)) THEN em_open
                  ELSE em_open \ {CpOid(t)}
    /\ status_writes' =
          <<StatusData(active_trades, trades, total_trades, now)>>
          \o (IF CpOid(t) \in Range(active_trades)
                 THEN <<StatusData(active_trades', trades', total_trades, now)>>
                 ELSE <<>>)
    /\ UNCHANGED <<now, should_run, stats, harnessVars, last_sleep, refreshed>>
    /\ MarkFundingCollected

----------------------------------------------------------------------------
(* The stop signal and emergency_close_all_positions.                      *)

\* lines 514-522: signal_handler clears should_run and creates the task.
Signal ==
    /\ pc["emergency"] = "none"
    /\ pc["monitor"] # "done"
    /\ should_run' = FALSE
    /\ pc' = [pc EXCEPT !["emergency"] = "em_start"]
    /\ UNCHANGED <<now, ledger, stats, cycle, locals, cp_price, harnessVars, last_sleep, refreshed, status_writes, em_open>>
    /\ MarkFundingCollected

\* lines 502-506: the task starts and snapshots list(self.active_trades.keys()).
EmStart ==
    /\ pc["emergency"] = "em_start"
    /\ GoEmergency(active_trades, 1, active_trades, trades)
    /\ em_open' = {o \in Range(active_trades) : ~trades[o].closed}
    /\ UNCHANGED <<now, should_run, stats, cp_price, harnessVars, last_sleep, refreshed, status_writes>>
    /\ MarkFundingCollected

\* The value emergency_close_all_positions returns: the function (lines
\* 500-510) has no return statement, and the bool close_position returns at
\* line 506 is dropped.
EmergencyReturn == "None"

\* line 510: the final notification is sent; the task ends.
EmNotify ==
    /\ pc["emergency"] = "em_notify"
    /\ pc' = [pc EXCEPT !["emergency"] = "em_done"]
    /\ UNCHANGED <<now, should_run, ledger, stats, cycle, locals, cp_price, harnessVars, last_sleep, refreshed, status_writes, em_open>>
    /\ MarkFundingCollected

\* The monitor loop has returned, so start() and main() return and
\* asyncio.run (line 590) cancels the task that is still pending.
Teardown ==
    /\ pc["monitor"] = "done"
    /\ pc["emergency"] \notin {"none", "em_start", "em_done", "cancelled"}
    /\ pc' = [pc EXCEPT !["emergency"] = "cancelled"]
    /\ UNCHANGED <<now, should_run, ledger, stats, cycle, locals, cp_price, harnessVars, last_sleep, refreshed, status_writes, em_open>>
    /\ MarkFundingCollected

----------------------------------------------------------------------------
(* The ranking step on its own: one poll of get_funding_rates over any      *)
(* symbols_info and any tickers, then lines 421-429 with any minimum rate   *)
(* and any count.                                                           *)

\* Most rows nlargest is asked for.
MaxRankN == 2

RankSymbols == {"A", "B", "C"}

\* Orders in which symbols_info can hold the symbols.
RankSymbolLists ==
    {q \in [1..3 -> RankSymbols] : \A i, j \in 1..3 : i # j => q[i] # q[j]}

\* Tickers of the ranking step: a failed call, a ticker without a funding
\* time, and rates 0, below, at and above the minimum at two funding times.
RankTickers ==
    [ok : {TRUE}, fundingRate : {-10, 0, 5, 10}, nextFundingTime : {1, 2}]
        \cup {NoTicker, [ok |-> TRUE, fundingRate |-> 10, nextFundingTime |-> 0]}

\* Values of MIN_FUNDING_RATE.
RankMins == {0, 5, 10}

RankIdle ==
    /\ r_pc = "off" /\ r_symbols = <<>> /\ r_tickers = <<>>
    /\ r_min = 0 /\ r_n = 0 /\ r_df = <<>> /\ r_top = <<>>

RankInputs ==
    /\ r_pc = "poll"
    /\ r_symbols \in RankSymbolLists
    /\ r_tickers \in [RankSymbols -> RankTickers]
    /\ r_min \in RankMins
    /\ r_n \in 1..MaxRankN
    /\ r_df = <<>> /\ r_top = <<>>

\* line 416: funding_df = await self.get_funding_rates().
RankPoll ==
    /\ r_pc = "poll"
    /\ r_df' \in GetFundingRates(r_symbols, r_tickers)
    /\ r_pc' = "polled"
    /\ UNCHANGED <<r_symbols, r_tickers, r_min, r_n, r_top, loopVars, rateVars, sizeVars, auxVars>>

\* lines 421-429: abs_rate, the filter and nlargest.
RankTop ==
    /\ r_pc = "polled"
    /\ r_top' = TopPairs(r_df, r_min, r_n)
    /\ r_pc' = "ranked"
    /\ UNCHANGED <<r_symbols, r_tickers, r_min, r_n, r_df, loopVars, rateVars, sizeVars, auxVars>>

\* src/src/funding_arbitrage_bot.py, lines 342-362: the ranking of the dual
\* loop, with n for its head(10).
RankTopDual ==
    /\ r_pc = "polled"
    /\ r_top' \in DualTopPairs(r_df, r_min, r_n)
    /\ r_pc' = "ranked_dual"
    /\ UNCHANGED <<r_symbols, r_tickers, r_min, r_n, r_df, loopVars, rateVars, sizeVars, auxVars>>

\* TradingBot.__init__ (lines 55-64), with the monitor loop entered (line 413)
\* and awaiting its first poll.
-----------------------------------------------------------------------------
(* Harness for BybitClient._rate_limit_check: the two tasks call methods of  *)
(* the one client; each method awaits _rate_limit_check and then sends its   *)
(* request with a synchronous pybit call.                                    *)

\* bybit_client.py line 41: 0.1 s, in ticks of 50 ms.
min_request_interval == 2

MaxClock == 4
MaxRequests == 3

\* line 54 and the session call that follows the await with nothing between.
SendRequest(t) ==
    /\ last_request_time' = clock
    /\ requests' = Append(requests, clock)

\* lines 47-52 (and 54 when the interval has passed): the watermark is read
\* and the task either goes on at once or suspends in asyncio.sleep.
RlCheck(t) ==
    /\ rl_pc[t] = "idle"
    /\ Len(requests) < MaxRequests
    /\ LET time_diff == clock - last_request_time
       IN  IF time_diff < min_request_interval
              THEN /\ rl_pc' = [rl_pc EXCEPT ![t] = "sleeping"]
                   /\ rl_wake' = [rl_wake EXCEPT ![t] =
                                     clock + (min_request_interval - time_diff)]
                   /\ UNCHANGED <<last_request_time, requests>>
              ELSE /\ SendRequest(t)
                   /\ UNCHANGED <<rl_pc, rl_wake>>
    /\ UNCHANGED <<clock, loopVars, rankVars, sizeVars, auxVars>>

\* lines 52-54: asyncio.sleep returns, not before it is due, and the watermark
\* is set to the present time.
RlWake(t) ==
    /\ rl_pc[t] = "sleeping"
    /\ clock >= rl_wake[t]
    /\ SendRequest(t)
    /\ rl_pc' = [rl_pc EXCEPT ![t] = "idle"]
    /\ UNCHANGED <<clock, rl_wake, loopVars, rankVars, sizeVars, auxVars>>

\* Time passes.
RlTick ==
    /\ clock < MaxClock
    /\ clock' = clock + 1
    /\ UNCHANGED <<last_request_time, rl_pc, rl_wake, requests, loopVars, rankVars, sizeVars, auxVars>>

\* line 40 is last_request_time = 0 against a clock of seconds since 1970:
\* the first call never waits.
RateStart ==
    /\ clock = 0
    /\ last_request_time = 0 - min_request_interval
    /\ rl_pc = [t \in Tasks |-> "idle"]
    /\ rl_wake = [t \in Tasks |-> 0]
    /\ requests = <<>>

RateIdle ==
    /\ clock = 0 /\ last_request_time = 0
    /\ rl_pc = [t \in Tasks |-> "off"]
    /\ rl_wake = [t \in Tasks |-> 0]
    /\ requests = <<>>

-----------------------------------------------------------------------------
(* Harness for BybitClient.calculate_position_size: the budget, the price   *)
(* of the quote and the instrument's minOrderQty and qtyStep are whatever    *)
(* the caller and the exchange give (bybit_client.py lines 121-122 store the *)
(* lotSizeFilter values as they come).                                       *)

MaxSizeAmount == 8
MaxSizeInput == 3

SizeIdle ==
    /\ s_pc = "off" /\ s_amount = 0 /\ s_price = 0
    /\ s_min = 0 /\ s_step = 0 /\ s_size = 0

SizeInputs ==
    /\ s_pc = "call"
    /\ s_amount \in 1..MaxSizeAmount
    /\ s_price \in 1..MaxSizeInput
    /\ s_min \in 1..MaxSizeInput
    /\ s_step \in 1..MaxSizeInput
    /\ s_size = 0

\* lines 242-278: the call returns its size.
SizeCall ==
    /\ s_pc = "call"
    /\ s_size' = CalculatePositionSize(s_amount, s_price, s_min, s_step)
    /\ s_pc' = "sized"
    /\ UNCHANGED <<s_amount, s_price, s_min, s_step, loopVars, rankVars, rateVars, auxVars>>

----------------------------------------------------------------------------
(* save_status (lines 123-154) and save_funding_rates (lines 156-251) on   *)
(* their own, on any ledger, statistics and frame, with writes that        *)
(* succeed or fail.                                                        *)

\* datetime.isoformat of an entry_time.
IsoFormat(t) == [iso |-> t.datetime]

Mut_SerializeTradeData(trade_data) ==
    [result |-> [trade_data EXCEPT !.entry_time = IsoFormat(@)],
     trade_data |-> [trade_data EXCEPT !.entry_time = IsoFormat(@)]]

\* lines 261-270: serialized = dict(trade_data) is a copy; the copy's
\* entry_time is replaced by its isoformat and the copy is returned.  result
\* is the returned dict, trade_data what the argument holds after the call.
SerializeTradeData(trade_data) ==
    [result |-> [trade_data EXCEPT !.entry_time = IsoFormat(@)],
     trade_data |-> trade_data]

\* What open(..., "w") and json.dump can do to a file: write it, fail before
\* the file is truncated, fail after.
WriteOutcomes == {"written", "open_failed", "dump_failed"}

WriteFile(old, content, outcome) ==
    CASE outcome = "written" -> [state |-> "written", content |-> content]
      [] outcome = "open_failed" -> old
      [] OTHER -> [state |-> "partial"]

PubSymbols == {"A", "B"}

PubRecords ==
    [symbol : PubSymbols, entry_time : [datetime : {1, 2}], closed : BOOLEAN]

PubLedgers == UNION {[1..n -> PubRecords] : n \in 0..2}

PubStatistics ==
    {st \in [total_trades : 0..2, successful_trades : 0..2, total_pnl : {-1, 0, 1}] :
        st.successful_trades <= st.total_trades}

PubFrames ==
    {<<>>, <<[symbol |-> "A", predictedRate |-> MIN_FUNDING_RATE]>>,
     <<[symbol |-> "A", predictedRate |-> 0]>>}

PubIdle ==
    /\ p_active_trades = <<>>
    /\ p_statistics = [total_trades |-> 0, successful_trades |-> 0, total_pnl |-> 0]
    /\ p_funding_df = <<>>
    /\ p_files = [bot_status |-> [state |-> "absent"], funding_rates |-> [state |-> "absent"]]

PubInputs ==
    /\ p_active_trades \in PubLedgers
    /\ p_statistics \in PubStatistics
    /\ p_funding_df \in PubFrames
    /\ p_files = [bot_status |-> [state |-> "absent"], funding_rates |-> [state |-> "absent"]]

\* lines 123-154: status_data is built from the serialised copies and the
\* statistics and dumped; an exception of the write is caught (line 153).
SaveStatus(outcome) ==
    LET ser == [i \in 1..Len(p_active_trades) |->
                   SerializeTradeData(p_active_trades[i])]
        status_data == [active_trades |-> [i \in 1..Len(ser) |-> ser[i].result],
                        statistics |-> p_statistics]
    IN /\ p_active_trades' = [i \in 1..Len(ser) |-> ser[i].trade_data]
       /\ p_statistics' = p_statistics
       /\ p_files' = [p_files EXCEPT
                         !.bot_status = WriteFile(@, status_data, outcome)]
       /\ UNCHANGED <<p_funding_df, notPub>>

\* lines 156-251: nothing is written for an empty frame; otherwise the rows
\* at or above MIN_FUNDING_RATE are counted and funding_rates.json is
\* written; an exception of the write is caught (line 250).
SaveFundingRates(outcome) ==
    /\ p_funding_df # <<>>
    /\ LET filtered == SelectSeq(p_funding_df,
                           LAMBDA row : Abs(row.predictedRate) >= MIN_FUNDING_RATE)
           funding_data == [total_pairs |-> Len(p_funding_df),
                            filtered_pairs |-> Len(filtered)]
       IN p_files' = [p_files EXCEPT
                         !.funding_rates = WriteFile(@, funding_data, outcome)]
    /\ UNCHANGED <<p_active_trades, p_statistics, p_funding_df, notPub>>

----------------------------------------------------------------------------
(* update_balance (lines 87-95) with get_wallet_balance (bybit_client.py   *)
(* lines 56-90) on its own, on any sequence of answers of the exchange.    *)

\* Largest wallet balance the exchange reports.
MaxBalance == 3

\* Number of update_balance calls followed.
MaxBalanceUpdates == 3

\* Answers to get_wallet_balance: the coin's walletBalance, or a failure (a
\* retCode other than 0, an empty list, an exception of the session).
WalletAnswers ==
    [ok : {TRUE}, walletBalance : 0..MaxBalance]
        \cup {[ok |-> FALSE, walletBalance |-> 0]}

\* bybit_client.py lines 66-90: the walletBalance of the coin; 0.0 when the
\* answer is an error (line 86) or the call raised (line 90).
GetWalletBalance(answer) ==
    IF answer.ok THEN answer.walletBalance ELSE 0

BalIdle ==
    /\ balance = 0
    /\ b_fetched = <<>>
    /\ b_published = <<>>

\* lines 89-92: self.balance takes what get_wallet_balance returned and
\* save_status writes it (line 132).  get_wallet_balance catches its own
\* exceptions, so the except branch of line 93 is never taken.
UpdateBalance(answer) ==
    /\ Len(b_published) < MaxBalanceUpdates
    /\ balance' = GetWalletBalance(answer)
    /\ b_published' = Append(b_published, balance')
    /\ b_fetched' = IF answer.ok THEN Append(b_fetched, answer.walletBalance)
                                ELSE b_fetched
    /\ UNCHANGED notBal

----------------------------------------------------------------------------
(* The Telegram process (telegram_bot.py) beside the trading bot: its       *)
(* handler of the confirm_stop callback.                                    *)

TgIdle == tg_message = "menu"

\* telegram_bot.py lines 180-188: the handler edits the message to the text
\* that the bot was stopped; it does nothing else (line 182 is a comment).
HandleConfirmStop ==
    /\ tg_message # "stopped"
    /\ tg_message' = "stopped"
    /\ UNCHANGED notTg

----------------------------------------------------------------------------
(* The controller (src/src/funding_bot_controller.py): main starts the two *)
(* processes, monitor_processes checks them every 10 seconds and rewrites   *)
(* bot_status.json.  The trading bot and the Telegram process write the     *)
(* same file.                                                              *)

\* Statuses of the trading bot that are followed.
MaxPublished == 2

\* A process handle: None, a process that runs (returncode is None), a
\* process that has exited (returncode is set).
Handles == {"None", "running", "exited"}

\* create_subprocess_exec: a process, or an exception.
SpawnResults == {TRUE, FALSE}

\* lines 28-54: the handle of the new process; None when the spawn raised.
StartProcess(spawned) == IF spawned THEN "running" ELSE "None"

\* lines 59, 65: "process and process.returncode is not None".
RestartDue(process) == process # "None" /\ process = "exited"

\* bot_status.json: absent, or a JSON object; data is the version of the
\* trading bot's balance, active_trades and statistics that the object
\* holds, 0 when it has none of these keys.
NoFile == [present |-> FALSE, data |-> 0]

SupIdle ==
    /\ c_pc = "off"
    /\ telegram_process = "None"
    /\ trading_process = "None"
    /\ status_file = NoFile
    /\ published = 0
    /\ tg_pc = "off"
    /\ existing_status = NoFile

SupStart ==
    /\ c_pc = "start_telegram"
    /\ telegram_process = "None"
    /\ trading_process = "None"
    /\ status_file = NoFile
    /\ published = 0
    /\ tg_pc = "off"
    /\ existing_status = NoFile

\* The Telegram process as it starts: main calls save_status first
\* (telegram_bot.py line 649).
TgStarted(handle) == IF handle = "running" THEN "read" ELSE "off"

\* lines 104-107: main starts the Telegram process and sleeps 5 seconds.
MainStartTelegram(spawned) ==
    /\ c_pc = "start_telegram"
    /\ telegram_process' = StartProcess(spawned)
    /\ tg_pc' = TgStarted(telegram_process')
    /\ c_pc' = "start_trading"
    /\ UNCHANGED <<trading_process, status_file, published, existing_status, notSup>>

\* lines 110-113: main starts the trading bot and the monitor task.
MainStartTrading(spawned) ==
    /\ c_pc = "start_trading"
    /\ trading_process' = StartProcess(spawned)
    /\ c_pc' = "check_telegram"
    /\ UNCHANGED <<telegram_process, status_file, published, tg_pc,
                   existing_status, notSup>>

\* lines 59-62: the Telegram process is restarted when its handle is set and
\* has a returncode.
CheckTelegram(spawned) ==
    /\ c_pc = "check_telegram"
    /\ IF RestartDue(telegram_process)
          THEN /\ telegram_process' = StartProcess(spawned)
               /\ tg_pc' = TgStarted(telegram_process')
          ELSE UNCHANGED <<telegram_process, tg_pc>>
    /\ c_pc' = "check_trading"
    /\ UNCHANGED <<trading_process, status_file, published, existing_status, notSup>>

\* lines 65-68: the same for the trading bot.
CheckTrading(spawned) ==
    /\ c_pc = "check_trading"
    /\ trading_process' = IF RestartDue(trading_process)
                             THEN StartProcess(spawned) ELSE trading_process
    /\ c_pc' = "write_status"
    /\ UNCHANGED <<telegram_process, status_file, published, tg_pc,
                   existing_status, notSup>>

\* lines 71-85: the file is replaced by an object with the keys
\* telegram_bot, trading_bot and timestamp; then the 10 second sleep.
ControllerWriteStatus ==
    /\ c_pc = "write_status"
    /\ status_file' = [present |-> TRUE, data |-> 0]
    /\ c_pc' = "sleep"
    /\ UNCHANGED <<telegram_process, trading_process, published, tg_pc,
                   existing_status, notSup>>

\* line 87: the sleep ends and the loop starts over.
ControllerWake ==
    /\ c_pc = "sleep"
    /\ c_pc' = "check_telegram"
    /\ UNCHANGED <<telegram_process, trading_process, status_file, published,
                   tg_pc, existing_status, notSup>>

\* A supervised process ends: its handle gets a returncode.
TelegramExits ==
    /\ telegram_process = "running"
    /\ telegram_process' = "exited"
    /\ tg_pc' = "off"
    /\ UNCHANGED <<c_pc, trading_process, status_file, published,
                   existing_status, notSup>>

TradingExits ==
    /\ trading_process = "running"
    /\ trading_process' = "exited"
    /\ UNCHANGED <<c_pc, telegram_process, status_file, published, tg_pc,
                   existing_status, notSup>>

\* funding_arbitrage_bot.py lines 123-154: the trading bot replaces the file
\* by its status_data: balance, active_trades, statistics.
TradingSaveStatus ==
    /\ trading_process = "running"
    /\ published < MaxPublished
    /\ published' = published + 1
    /\ status_file' = [present |-> TRUE, data |-> published']
    /\ UNCHANGED <<c_pc, telegram_process, trading_process, tg_pc,
                   existing_status, notSup>>

\* telegram_bot.py lines 617-619: save_status loads the file when it exists.
TgLoadStatus ==
    /\ tg_pc = "read"
    /\ existing_status' = status_file
    /\ tg_pc' = "write"
    /\ UNCHANGED <<c_pc, telegram_process, trading_process, status_file,
                   published, notSup>>

\* telegram_bot.py lines 621-628: the loaded object, with telegram_bot and
\* timestamp set, is written back; a new object when there was no file.
TgWriteStatus ==
    /\ tg_pc = "write"
    /\ status_file' = [present |-> TRUE, data |-> existing_status.data]
    /\ tg_pc' = "polling"
    /\ UNCHANGED <<c_pc, telegram_process, trading_process, published,
                   existing_status, notSup>>

----------------------------------------------------------------------------
(* The exit pass of the second monitor loop (src/src/funding_arbitrage_bot  *)
(* .py lines 400-422) with its close_position (lines 271-329), on any      *)
(* ledger and any schedule, with closes that succeed or fail.              *)

\* Cycles of the loop that are followed.
MaxDualCycles == 3

DualOrders == {1, 2}

DualSymbols == {"A", "B"}

\* Ledgers the entry pass can have built: one position per symbol (lines
\* 376-381), each inserted with funding_collected False (line 254).
DualLedgers ==
    {at \in UNION {[S -> [symbol : DualSymbols, funding_collected : {FALSE}]] :
                      S \in {{}, {1}, {1, 2}}} :
        \A o1, o2 \in DOMAIN at : o1 # o2 => at[o1].symbol # at[o2].symbol}

\* list(self.active_trades.items()): the order ids in insertion order.
DualSnapshot(at) ==
    IF DOMAIN at = {} THEN <<>>
    ELSE IF DOMAIN at = {1} THEN <<1>>
    ELSE IF DOMAIN at = {2} THEN <<2>>
    ELSE <<1, 2>>

DualIdle ==
    /\ d_pc = "off"
    /\ d_active_trades = <<>>
    /\ d_items = <<>>
    /\ d_due = {}
    /\ d_attempts = [o \in DualOrders |-> 0]
    /\ d_cycles = 0

DualInputs ==
    /\ d_pc = "poll"
    /\ d_active_trades \in DualLedgers
    /\ d_items = <<>>
    /\ d_due = {}
    /\ d_attempts = [o \in DualOrders |-> 0]
    /\ d_cycles = 0

\* lines 404-411: the symbol has a row in filtered_df whose funding time is
\* more than 5 seconds past, and funding_collected is not set.
DualCloseDue(trade_data, due) ==
    trade_data.symbol \in due /\ ~trade_data.funding_collected

\* lines 338-399: a poll whose frame makes the exit condition hold for the
\* symbols of due; the exit pass starts on list(self.active_trades.items()).
DualPoll(due) ==
    /\ d_pc = "poll"
    /\ d_cycles < MaxDualCycles
    /\ d_cycles' = d_cycles + 1
    /\ d_due' = due
    /\ d_items' = DualSnapshot(d_active_trades)
    /\ d_pc' = "exit"
    /\ UNCHANGED <<d_active_trades, d_attempts, notDual>>

\* lines 401-421 for one entry of the snapshot: when the close is due the
\* flag is set (line 413) and close_position is called; a close whose order
\* was placed deletes the entry (line 317), a failed one returns False
\* (lines 279-280, 323-324) and leaves it.
DualExit(closed) ==
    /\ d_pc = "exit"
    /\ d_items # <<>>
    /\ LET o == Head(d_items)
       IN IF DualCloseDue(d_active_trades[o], d_due)
             THEN /\ d_attempts' = [d_attempts EXCEPT ![o] = @ + 1]
                  /\ d_active_trades' =
                        IF closed
                           THEN [k \in DOMAIN d_active_trades \ {o} |-> d_active_trades[k]]
                           ELSE [d_active_trades EXCEPT ![o].funding_collected = TRUE]
             ELSE UNCHANGED <<d_active_trades, d_attempts>>
    /\ d_items' = Tail(d_items)
    /\ UNCHANGED <<d_pc, d_due, d_cycles, notDual>>

\* line 424: the pass is over; the loop sleeps 10 seconds and starts over.
DualSleep ==
    /\ d_pc = "exit"
    /\ d_items = <<>>
    /\ d_pc' = "poll"
    /\ UNCHANGED <<d_active_trades, d_items, d_due, d_attempts, d_cycles, notDual>>

LoopInit ==
    /\ now = 0
    /\ should_run = TRUE
    /\ active_trades = <<>>
    /\ trades = <<>>
    /\ total_trades = 0 /\ successful_trades = 0 /\ total_pnl = 0
    /\ funding_df = <<>> /\ current_time = 0
    /\ pc = [t \in Tasks |-> IF t = "monitor" THEN "poll" ELSE "none"]
    /\ idx = 0 /\ size = 0 /\ price = 0
    /\ items = [t \in Tasks |-> <<>>]
    /\ pos = [t \in Tasks |-> 0]
    /\ cp_price = [t \in Tasks |-> 0]
    /\ em_open = {}
    /\ last_sleep = 0
    /\ funding_collected = {}
    /\ refreshed = FALSE
    /\ status_writes = <<StatusData(<<>>, <<>>, 0, 0)>>

AuxIdle == PubIdle /\ BalIdle /\ TgIdle /\ SupIdle /\ DualIdle

CoreIdle == LoopInit /\ RankIdle /\ RateIdle /\ SizeIdle

Init == CoreIdle /\ AuxIdle

\* asyncio runs ready callbacks in FIFO order, so the first step of the task
\* created by signal_handler runs before any continuation of the monitor that
\* becomes ready after the signal.  A continuation that was ready already runs
\* first; only for the return of the sleep of line 494, where should_run is
\* tested, does that order differ from the signal arriving after the step.
EmergencyQueued == pc["emergency"] = "em_start"

\* The pybit calls are synchronous (bybit_client.py lines 69, 102, 161, 219,
\* 315): while one of them has not returned, the event loop runs nothing, and
\* no call is wrapped in a timeout.  A task in such a call is at "hung".
Blocked == \E t \in Tasks : pc[t] = "hung"

\* The places where a task is waiting for an exchange call.
ExchangeCalls ==
    {"poll", "size", "open_ticker", "open_order", "cp_ticker", "cp_order",
     "cp_finish", "sleep"}

\* An exchange call that never returns.
Hang(t) ==
    /\ ~Blocked
    /\ pc[t] \in ExchangeCalls
    /\ pc' = [pc EXCEPT ![t] = "hung"]
    /\ UNCHANGED <<now, should_run, ledger, stats, cycle, locals, cp_price,
                   status_writes, refreshed, funding_collected, em_open,
                   harnessVars, last_sleep>>

\* One step of the monitor task.
MonitorStep(R, TC) ==
    \/ /\ ~EmergencyQueued
       /\ \/ MonPoll(TC) \/ MonSize(R) \/ MonOpenTicker(R) \/ MonOpenOrder(R)
          \/ MonOpenNotify
          \/ CpTicker("monitor", R) \/ CpOrder("monitor", R) \/ CpFinish("monitor")
    \/ MonSleep

\* One step of the task that signal_handler created.
EmergencyStep(R) ==
    \/ CpTicker("emergency", R) \/ CpOrder("emergency", R) \/ CpFinish("emergency")
    \/ EmStart \/ EmNotify

\* One step of the program with call outcomes R and poll tickers TC: a step
\* that the event loop runs, or the signal handler, which the interpreter runs
\* in the main thread whatever the loop is doing.
Step(R, TC) ==
    \/ /\ ~Blocked
       /\ MonitorStep(R, TC) \/ EmergencyStep(R) \/ Teardown
    \/ Signal

Next == Step(CallResults, TickerChoices)

Spec == Init /\ [][Next]_vars

\* The same program with an exchange on which no call fails.
ReliableNext == Step({TRUE}, TickerChoices \ {NoTicker})

ReliableSpec == Init /\ [][ReliableNext]_vars

RankInit == LoopInit /\ RankInputs /\ RateIdle /\ SizeIdle /\ AuxIdle

RankNext == RankPoll \/ RankTop \/ RankTopDual

RankSpec == RankInit /\ [][RankNext]_vars

\* The same program with an exchange whose calls succeed or never return.
HangNext == ReliableNext \/ \E t \in Tasks : Hang(t)

HangSpec == Init /\ [][HangNext]_vars

RateInit == LoopInit /\ RankIdle /\ RateStart /\ SizeIdle /\ AuxIdle

RateNext == \E t \in Tasks : RlCheck(t) \/ RlWake(t) \/ RlTick

RateSpec == RateInit /\ [][RateNext]_vars

PublishInit == CoreIdle /\ PubInputs /\ BalIdle /\ TgIdle /\ SupIdle /\ DualIdle

PublishNext ==
    \E outcome \in WriteOutcomes : SaveStatus(outcome) \/ SaveFundingRates(outcome)

PublishSpec == PublishInit /\ [][PublishNext]_vars

\* The trading bot on an exchange without failures, with the Telegram process
\* handling a confirm_stop callback at any moment.
TelegramNext == ReliableNext \/ HandleConfirmStop

TelegramSpec == Init /\ [][TelegramNext]_vars

ControllerInit == CoreIdle /\ PubIdle /\ BalIdle /\ TgIdle /\ SupStart /\ DualIdle

ControllerNext ==
    \/ \E spawned \in SpawnResults :
          \/ MainStartTelegram(spawned) \/ MainStartTrading(spawned)
          \/ CheckTelegram(spawned) \/ CheckTrading(spawned)
    \/ ControllerWriteStatus \/ ControllerWake
    \/ TelegramExits \/ TradingExits
    \/ TradingSaveStatus \/ TgLoadStatus \/ TgWriteStatus

ControllerSpec == ControllerInit /\ [][ControllerNext]_vars

DualInit == CoreIdle /\ PubIdle /\ BalIdle /\ TgIdle /\ SupIdle /\ DualInputs

DualNext ==
    \/ \E due \in SUBSET DualSymbols : DualPoll(due)
    \/ \E closed \in CallResults : DualExit(closed)
    \/ DualSleep

DualSpec == DualInit /\ [][DualNext]_vars

BalanceInit == Init

BalanceNext == \E answer \in WalletAnswers : UpdateBalance(answer)

BalanceSpec == BalanceInit /\ [][BalanceNext]_vars

SizeInit == LoopInit /\ RankIdle /\ RateIdle /\ SizeInputs /\ AuxIdle

SizeNext == SizeCall

SizeSpec == SizeInit /\ [][SizeNext]_vars

----------------------------------------------------------------------------
(* Properties.                                                             *)

\* Order ids ever inserted.
Oids == 1..Len(trades)

\* The Open positions of the ledger on a symbol.
OpenOn(sym) ==
    {o \in Range(active_trades) : trades[o].symbol = sym /\ ~trades[o].closed}

\* C1: in every reachable state the ledger (active_trades) holds at most one
\* position that is not closed per symbol.
C1_OneOpenPerSymbol == \A sym \in Symbols : Cardinality(OpenOn(sym)) <= 1

\* The entry pass has just inserted a position while a position on the other
\* symbol, inserted before it, is Open in the ledger.
C1_Witness ==
    /\ pc["monitor"] = "open_notify"
    /\ \A sym \in Symbols : Cardinality(OpenOn(sym)) = 1

\* C2, as a property of finite runs of the program on an exchange on which
\* every poll, quote call and order succeeds: whenever a cycle of the monitor
\* ends (the loop reaches its sleep), no position opened for a funding time F
\* with F + SECONDS_AFTER_FUNDING_TO_CLOSE < T is still Open in the ledger.
C2_ClosedAfterHold ==
    [][(pc["monitor"] # "sleep" /\ pc'["monitor"] = "sleep") =>
          \A o \in Range(active_trades') :
              ~trades'[o].closed =>
                  ~(now' - trades'[o].opened_for > SECONDS_AFTER_FUNDING_TO_CLOSE)]_vars

\* C3: a position is created Open, by the entry order step only, at a new
\* order id; its only change while Open is to become Closed; once Closed it
\* stays Closed; and it leaves the ledger only when it is Closed.
C3_OpenToClosedOnce ==
    [][/\ Len(trades') >= Len(trades)
       /\ Len(trades') > Len(trades) =>
             /\ pc["monitor"] = "open_order"
             /\ Len(trades') = Len(trades) + 1
             /\ ~trades'[Len(trades')].closed
             /\ active_trades' = Append(active_trades, Len(trades'))
       /\ \A o \in Oids :
             /\ trades[o].closed => trades'[o].closed
             /\ ~trades[o].closed => (trades'[o] = trades[o] \/ trades'[o].closed)
       /\ \A o \in Range(active_trades) :
             o \notin Range(active_trades') => trades[o].closed]_vars

\* A position has gone from Open to Closed and has been removed from the
\* ledger, while another position is still Open in it.
C3_Witness ==
    \E o, q \in Oids :
        /\ trades[o].closed /\ o \notin Range(active_trades)
        /\ ~trades[q].closed /\ q \in Range(active_trades)

\* C4: closing a position that is already Closed is a no-op; in particular no
\* close order is accepted, and no statistic updated, for a position whose
\* `closed` flag is already set.
C4_SecondCloseNoOp ==
    [][\A t \in Tasks :
          (pc[t] = "cp_order" /\ pc'[t] = "cp_finish") =>
              /\ ~trades[CpOid(t)].closed
              /\ CpOid(t) \in Range(active_trades)]_vars

\* C5: the statistics change only in a step in which a position goes from
\* Open to Closed; total_trades is the number of closed positions.
C5_StatsOncePerClose ==
    [][/\ stats' # stats =>
             \E o \in Oids : ~trades[o].closed /\ trades'[o].closed
       /\ total_trades' = Cardinality({o \in 1..Len(trades') : trades'[o].closed})]_vars

\* C6: an entry order is accepted only for a candidate with
\* 0 < nextFundingTime - T <= SECONDS_BEFORE_FUNDING, T being the time of the
\* cycle; from the await of the sizing call to the order the monitor holds
\* such a candidate.
C6_EntryWindow ==
    [][/\ pc'["monitor"] \in {"size", "open_ticker", "open_order"} =>
             LET row == TopPairs(funding_df', MIN_FUNDING_RATE, TOP_PAIRS_COUNT)[idx']
             IN /\ 0 < row.nextFundingTime - current_time'
                /\ row.nextFundingTime - current_time' <= SECONDS_BEFORE_FUNDING
       /\ Len(trades') > Len(trades) =>
             LET td == trades'[Len(trades')]
             IN /\ 0 < td.opened_for - current_time
                /\ td.opened_for - current_time <= SECONDS_BEFORE_FUNDING]_vars

\* A position has just been entered with the time until funding equal to
\* SECONDS_BEFORE_FUNDING exactly.
C6_Witness ==
    /\ pc["monitor"] = "open_notify"
    /\ trades[Len(trades)].opened_for - current_time = SECONDS_BEFORE_FUNDING

\* C7: while the exit pass of the monitor is closing a position, the frame of
\* the cycle has a row for the position's symbol and T - nextFundingTime of
\* that row is strictly greater than SECONDS_AFTER_FUNDING_TO_CLOSE.
C7_ExitStrict ==
    pc["monitor"] \in {"cp_ticker", "cp_order", "cp_finish"} =>
        \E i \in 1..Len(funding_df) :
            /\ funding_df[i].symbol = trades[CpOid("monitor")].symbol
            /\ \A j \in 1..(i - 1) : funding_df[j].symbol # funding_df[i].symbol
            /\ current_time - funding_df[i].nextFundingTime
                   > SECONDS_AFTER_FUNDING_TO_CLOSE

\* The exit pass has closed a position at the least excess over the hold time:
\* T - nextFundingTime = SECONDS_AFTER_FUNDING_TO_CLOSE + 1.
C7_Witness ==
    /\ pc["monitor"] = "cp_finish"
    /\ trades[CpOid("monitor")].closed
    /\ \E i \in 1..Len(funding_df) :
          /\ funding_df[i].symbol = trades[CpOid("monitor")].symbol
          /\ current_time - funding_df[i].nextFundingTime
                 = SECONDS_AFTER_FUNDING_TO_CLOSE + 1

\* The records of C8's two examples at entry, in 1/RateScale USDT.
ExampleBuy ==
    [side |-> "Buy", size |-> 2, entry_price |-> 100,
     expected_funding_profit |-> 50000]

ExampleSell ==
    [side |-> "Sell", size |-> 1, entry_price |-> 100,
     expected_funding_profit |-> 20000]

\* What C8 requires of a closed trade_data record.
PnlAsSpecified(td) ==
    /\ td.price_pnl = (IF td.side = "Buy"
                          THEN (td.exit_price - td.entry_price) * td.size
                          ELSE (td.entry_price - td.exit_price) * td.size) * RateScale
    /\ td.total_pnl = td.price_pnl + td.expected_funding_profit

\* C8: every closed position has total_pnl = price_pnl + funding, price_pnl
\* being (exit - entry) * size for a Buy and (entry - exit) * size for a Sell,
\* and funding the expected_funding_profit stored at entry, which no step
\* changes afterwards; the two examples give 20.5 and 5.2.
C8_RealizedPnl ==
    [][/\ \A o \in 1..Len(trades') :
             (trades'[o].closed /\ trades'[o] # Released) => PnlAsSpecified(trades'[o])
       /\ \A o \in Oids :
             trades'[o] # Released =>
                 /\ trades'[o].expected_funding_profit = trades[o].expected_funding_profit
                 /\ trades'[o].expected_funding_profit =
                        Abs(trades[o].funding_rate) * trades[o].entry_price * trades[o].size
       /\ TotalPnl(ExampleBuy, 110) = 2050000
       /\ TotalPnl(ExampleSell, 95) = 520000]_vars

\* A Sell position and a Buy position have been closed, one at a loss and one
\* at a profit on the price.
C8_Witness ==
    \E o, q \in Oids :
        /\ trades[o].closed /\ trades[o].side = "Sell" /\ trades[o].price_pnl < 0
        /\ trades[q].closed /\ trades[q].side = "Buy" /\ trades[q].price_pnl > 0

\* The symbols whose ticker passes the client's validity test and the rate
\* filter of the ranking step.
Eligible ==
    {sym \in Range(r_symbols) :
        /\ r_tickers[sym].ok /\ r_tickers[sym].nextFundingTime > 0
        /\ r_tickers[sym].fundingRate # 0
        /\ Abs(r_tickers[sym].fundingRate) >= r_min}

\* C9: the ranking step returns no row with rate 0 and no row with
\* |rate| < minimum; a row with |rate| equal to the minimum is not filtered
\* out (it is returned whenever the eligible rows all fit in the count).
C9_RankingFilter ==
    r_pc = "ranked" =>
        /\ \A i \in 1..Len(r_top) :
              /\ r_top[i].predictedRate # 0
              /\ Abs(r_top[i].predictedRate) >= r_min
              /\ r_top[i].predictedRate = r_tickers[r_top[i].symbol].fundingRate
        /\ Cardinality(Eligible) <= r_n =>
              \A sym \in Eligible : \E i \in 1..Len(r_top) : r_top[i].symbol = sym

\* The ranking step has returned a row whose |rate| equals the minimum while
\* the tickers held a zero rate and a rate below the minimum.
C9_Witness ==
    /\ r_pc = "ranked"
    /\ r_min > 0
    /\ \E i \in 1..Len(r_top) : Abs(r_top[i].predictedRate) = r_min
    /\ \E sym \in RankSymbols : r_tickers[sym].ok /\ r_tickers[sym].fundingRate = 0
    /\ \E sym \in RankSymbols :
          /\ r_tickers[sym].ok /\ r_tickers[sym].fundingRate # 0
          /\ Abs(r_tickers[sym].fundingRate) < r_min

\* C10: among eligible symbols with equal rates the ranking step prefers the
\* smaller symbol name: a returned row precedes, in name order, every
\* eligible symbol of the same rate that was left out, and rows of equal rate
\* are returned in ascending name order.
C10_TieBreakByName ==
    r_pc = "ranked" =>
        /\ \A i \in 1..Len(r_top) : \A sym \in Eligible :
              (/\ r_tickers[sym].fundingRate = r_top[i].predictedRate
               /\ \A j \in 1..Len(r_top) : r_top[j].symbol # sym)
                  => SymbolRank(r_top[i].symbol) < SymbolRank(sym)
        /\ \A i, j \in 1..Len(r_top) :
              (i < j /\ r_top[i].predictedRate = r_top[j].predictedRate)
                  => SymbolRank(r_top[i].symbol) < SymbolRank(r_top[j].symbol)

\* C11: the candidate set of a cycle has at most N rows in the global top-N
\* ranking and at most 2N rows in the dual ranking (N of each sign).
C11_CandidateSetSize ==
    /\ r_pc = "ranked" => Len(r_top) <= r_n
    /\ r_pc = "ranked_dual" =>
          /\ Len(r_top) <= 2 * r_n
          /\ Cardinality({i \in 1..Len(r_top) : r_top[i].predictedRate > 0}) <= r_n
          /\ Cardinality({i \in 1..Len(r_top) : r_top[i].predictedRate < 0}) <= r_n

\* The dual ranking has returned 2N rows out of more than 2N eligible ones.
C11_Witness ==
    /\ r_pc = "ranked_dual"
    /\ Len(r_top) = 2 * r_n
    /\ Cardinality(Eligible) > 2 * r_n

\* The snapshot of C12's example at T = 0, times scaled so that all three
\* symbols are inside the entry window: A +0.0008, B -0.0012, C +0.00005.
ExampleTickers ==
    [sym \in {"A", "B", "C"} |->
        CASE sym = "A" -> [ok |-> TRUE, fundingRate |-> 80, nextFundingTime |-> 2]
          [] sym = "B" -> [ok |-> TRUE, fundingRate |-> -120, nextFundingTime |-> 2]
          [] sym = "C" -> [ok |-> TRUE, fundingRate |-> 5, nextFundingTime |-> 1]]

\* The (symbol, side) pairs the entry pass submits for a frame at time T with
\* an empty ledger.
EntriesOf(df, T) ==
    LET top == TopPairs(df, MIN_FUNDING_RATE, TOP_PAIRS_COUNT)
    IN {<<top[i].symbol, EntrySide(top[i].predictedRate)>> :
           i \in {k \in 1..Len(top) : EntryAllowed(top[k], T, <<>>, <<>>)}}

\* C12: a position inserted by the entry pass is for the candidate being
\* entered, with side Sell when the candidate's predictedRate is > 0 and Buy
\* when it is < 0; the entry pass applied to the example snapshot gives
\* exactly Sell A and Buy B.
C12_EntrySide ==
    [][Len(trades') > Len(trades) =>
             LET td == trades'[Len(trades')]
                 row == TopOfCycle[idx]
             IN /\ td.symbol = row.symbol
                /\ td.funding_rate = row.predictedRate
                /\ row.predictedRate # 0
                /\ row.predictedRate > 0 => td.side = "Sell"
                /\ row.predictedRate < 0 => td.side = "Buy"
                /\ \A df \in GetFundingRates(<<"A", "B", "C">>, ExampleTickers) :
                      EntriesOf(df, 0) = {<<"A", "Sell">>, <<"B", "Buy">>}]_vars

\* A Sell position for a positive rate and a Buy position for a negative rate
\* are Open in the ledger.
C12_Witness ==
    \E o, q \in Range(active_trades) :
        /\ ~trades[o].closed /\ trades[o].side = "Sell" /\ trades[o].funding_rate > 0
        /\ ~trades[q].closed /\ trades[q].side = "Buy" /\ trades[q].funding_rate < 0

\* C13: emergency_close_all_positions takes every position that is Open when
\* it starts into its list of closes and goes on to the next one after a close
\* that fails; of the positions that were Open when it started, none is
\* counted in the statistics a second time, and when it is through each of
\* them is Closed or still Open in the ledger.
C13_EmergencyCloseAll ==
    [][/\ (pc["emergency"] = "em_start" /\ pc'["emergency"] \notin {"em_start", "cancelled"}) =>
             em_open' \subseteq Range(items'["emergency"])
       /\ (pc["emergency"] \in {"cp_ticker", "cp_order"}
              /\ stats' = stats /\ pc'["emergency"] # pc["emergency"]) =>
             pc'["emergency"] \in {"cp_ticker", "cp_order", "em_notify", "cancelled"}
       /\ \A t \in Tasks :
             (pc[t] = "cp_order" /\ pc'[t] = "cp_finish" /\ CpOid(t) \in em_open) =>
                 ~trades[CpOid(t)].closed
       /\ (pc["emergency"] # "em_notify" /\ pc'["emergency"] = "em_notify") =>
             \A o \in em_open : trades'[o].closed \/ o \in Range(active_trades')]_vars

\* C14: when emergency_close_all_positions has returned, the value it gave
\* its caller holds the number of closes that succeeded and the number that
\* failed.
C14_ReportsCounts ==
    pc["emergency"] = "em_done" =>
        /\ EmergencyReturn # "None"
        /\ EmergencyReturn.succeeded \in Nat
        /\ EmergencyReturn.failed \in Nat

\* Whether emergency_close_all_positions has called close_position for an
\* order id that is Open in the ledger: the id was in the ledger when the
\* task started and the task's loop has come to it.
CloseAttempted(o) ==
    /\ o \in em_open
    /\ \/ items["emergency"] = <<>>
       \/ \E k \in 1..pos["emergency"] : items["emergency"][k] = o

\* The loop of run() has no task left.
ProcessExited ==
    pc["monitor"] = "done" /\ pc["emergency"] \in {"em_done", "cancelled"}

\* C15: when the process exits after a stop signal, every position that is
\* Open in the ledger is one for which emergency_close_all_positions has
\* attempted a close.
C15_CloseAttemptedBeforeExit ==
    ProcessExited =>
        \A o \in Range(active_trades) : ~trades[o].closed => CloseAttempted(o)

\* C16: once the stop signal has been received no new cycle starts: the
\* monitor never begins a schedule poll while should_run is False, and
\* should_run never becomes True again.
C16_NoNewCycleAfterSignal ==
    [][/\ ~should_run => ~should_run'
       /\ (~should_run /\ pc["monitor"] # "poll") => pc'["monitor"] # "poll"]_vars

\* The signal arrived during a cycle and the loop has ended at its next test.
C16_Witness ==
    /\ ~should_run
    /\ pc["monitor"] = "done"
    /\ Len(trades) > 0

\* C17: any two requests sent to the exchange are at least
\* min_request_interval apart, whichever task sent them.
C17_RequestSpacing ==
    \A i, j \in 1..Len(requests) :
        i < j => requests[j] - requests[i] >= min_request_interval

\* C18: in a cycle whose schedule refresh failed or was empty, the monitor
\* does not rewrite the persisted status: when it leaves the awaits that end
\* the cycle, bot_status.json holds what it held before.
C18_FailedRefreshKeepsStatus ==
    [][(/\ pc["monitor"] = "sleep"
        /\ ~refreshed
        /\ pc'["monitor"] # "sleep") => status_writes' = status_writes]_vars

\* C19: every position record in a status that save_status writes is Open at
\* the moment of the write.
C19_StatusRecordsOpen ==
    \A w \in 1..Len(status_writes) :
        \A i \in 1..Len(status_writes[w].active_trades) :
            ~status_writes[w].active_trades[i].closed

\* C20: when an exchange call of the monitor never returns, the monitor loop
\* still makes progress: it has a step to take past the call.
C20_HungCallProgress ==
    pc["monitor"] = "hung" =>
        ENABLED MonitorStep({TRUE}, TickerChoices \ {NoTicker})

\* C21: in every interleaving of the monitor's cycle with the emergency task,
\* each position is counted in the statistics at most once: total_trades
\* never exceeds the number of positions ever opened.
C21_CountedAtMostOnce ==
    total_trades <= Len(trades)

\* The places at which a sub-step of a monitor cycle (poll, entry, exit) is in
\* progress.
CycleSubSteps ==
    {"poll", "size", "open_ticker", "open_order", "open_notify",
     "cp_ticker", "cp_order", "cp_finish"}

\* C22: a sub-step of a monitor cycle and an emergency close of a position are
\* never in progress in the same state.
C22_EmergencySequential ==
    ~(/\ pc["monitor"] \in CycleSubSteps
      /\ pc["emergency"] \in {"cp_ticker", "cp_order", "cp_finish"})

\* C23: after the stop signal no entry order is submitted and no new position
\* is inserted in the ledger, not by the cycle in flight either.
C23_NoEntryAfterSignal ==
    [][~should_run =>
          /\ Len(trades') = Len(trades)
          /\ pc'["monitor"] = "open_order" => pc["monitor"] = "open_order"]_vars

\* C24: in a cycle whose poll returned a frame that is not empty the entry
\* pass comes before the exit pass, and the exit pass examines every Open
\* position also when no row passes the filter: a cycle that goes from the
\* poll straight to its end leaves no position that the exit pass closes.
C24_EntryThenExitPass ==
    [][/\ pc["monitor"] \in {"cp_ticker", "cp_order", "cp_finish"} =>
             pc'["monitor"] \notin {"size", "open_ticker", "open_order", "open_notify"}
       /\ (pc["monitor"] = "poll" /\ pc'["monitor"] = "sleep" /\ refreshed') =>
             ExitScan(active_trades', 1, funding_df', current_time',
                      active_trades', trades') = 0]_vars

\* The places of the monitor between the start of the entry pass and the end
\* of the exit pass of a cycle.
Evaluating ==
    {"size", "open_ticker", "open_order", "open_notify",
     "cp_ticker", "cp_order", "cp_finish"}

\* C25: the status is not written between the start of the entry pass and the
\* end of the exit pass: a step of the monitor that begins and ends inside the
\* evaluation of a cycle leaves bot_status.json as it was.
C25_NoStatusWriteWhileEvaluating ==
    [][(/\ pc["emergency"] = "none"
        /\ pc["monitor"] \in Evaluating
        /\ pc'["monitor"] \in Evaluating) => status_writes' = status_writes]_vars

\* C26: a successful entry order inserts exactly one Open position for the
\* candidate's symbol, and before the next candidate is examined the
\* notification is sent and one status is written whose position list
\* contains the new position.
C26_EntryInsertNotifyPublish ==
    [][/\ Len(trades') > Len(trades) =>
             /\ Len(trades') = Len(trades) + 1
             /\ active_trades' = Append(active_trades, Len(trades'))
             /\ ~trades'[Len(trades')].closed
             /\ trades'[Len(trades')].symbol = TopOfCycle[idx].symbol
             /\ pc'["monitor"] = "open_notify"
       /\ (pc["monitor"] = "open_notify" /\ pc'["monitor"] # "open_notify") =>
             /\ Len(status_writes') = 1
             /\ \E i \in 1..Len(status_writes'[1].active_trades) :
                   status_writes'[1].active_trades[i].order_id = Len(trades)]_vars

\* Task t's close_position returns False in this step: the quote was not
\* available or the close order was rejected.
CloseFails(t) ==
    /\ \/ pc[t] = "cp_ticker" /\ pc'[t] # "cp_order"
       \/ pc[t] = "cp_order" /\ pc'[t] # "cp_finish"
    /\ pc'[t] # "cancelled"
    /\ pc'[t] # pc[t] \/ pos'[t] # pos[t]

\* C27: a failed close attempt leaves the position, the ledger and the
\* statistics as they were, and the close is attempted again in the next cycle
\* in which the exit condition holds: a cycle with a frame that is not empty
\* does not end, without an attempt, while the exit condition holds for a
\* position whose earlier close attempt failed.
C27_FailedCloseRetried ==
    [][/\ \A t \in Tasks :
             CloseFails(t) =>
                 /\ trades' = trades
                 /\ active_trades' = active_trades
                 /\ stats' = stats
       /\ (pc["monitor"] = "poll" /\ pc'["monitor"] = "sleep" /\ refreshed') =>
             \A o \in funding_collected :
                 ~ExitDue(funding_df', trades[o].symbol, current_time')]_vars

\* The monitor's processing of the candidate at idx fails in this step: the
\* size is 0, the quote is not available or the order is rejected.
EntryFails ==
    /\ pc["monitor"] \in {"size", "open_ticker", "open_order"}
    /\ pc'["monitor"] # pc["monitor"] \/ idx' # idx
    /\ ~(pc["monitor"] = "size" /\ pc'["monitor"] = "open_ticker")
    /\ ~(pc["monitor"] = "open_ticker" /\ pc'["monitor"] = "open_order")
    /\ ~(pc["monitor"] = "open_order" /\ pc'["monitor"] = "open_notify")

\* C28: a failure while a candidate of the entry pass is processed inserts no
\* position and leaves the ledger and the statistics unchanged, and the cycle
\* goes on: the pass continues with the next candidate that is allowed an
\* entry, and when there is none the exit pass runs over the ledger.
C28_EntryFailureIsolated ==
    [][EntryFails =>
          LET top == TopOfCycle
              rest == {i \in (idx + 1)..Len(top) :
                          EntryAllowed(top[i], current_time, active_trades, trades)}
          IN /\ trades' = trades
             /\ active_trades' = active_trades
             /\ stats' = stats
             /\ IF rest # {}
                   THEN /\ pc'["monitor"] = "size"
                        /\ idx' \in rest
                        /\ \A i \in rest : idx' <= i
                        /\ funding_df' = funding_df
                   ELSE /\ pc'["monitor"] \in {"cp_ticker", "sleep"}
                        /\ pos'["monitor"] =
                              ExitScan(active_trades, 1, funding_df, current_time,
                                       active_trades, trades)
                        /\ pc'["monitor"] = "cp_ticker" <=> pos'["monitor"] # 0]_vars

\* The first candidate was allowed an entry, its processing failed, and the
\* monitor is processing the second one.
C28_Witness ==
    /\ pc["emergency"] = "none"
    /\ pc["monitor"] = "size"
    /\ idx = 2
    /\ EntryAllowed(TopOfCycle[1], current_time, active_trades, trades)

C30_ErrorBackoffAfterFailedPoll ==
    [][(pc["monitor"] = "sleep" /\ ~refreshed /\ pc'["monitor"] # "sleep") =>
          last_sleep' = ERROR_SLEEP_SECONDS]_vars

\* C31: the size is 0, or a multiple q of qtyStep with
\* minOrderQty <= q <= notional / price; and it is 0 whenever the budget
\* rounded down to qtyStep is below minOrderQty.
C31_SizeStepAndMinimum ==
    s_pc = "sized" =>
        LET rounded == (s_amount \div (s_price * s_step)) * s_step
        IN /\ \/ s_size = 0
              \/ /\ s_size % s_step = 0
                 /\ s_min <= s_size
                 /\ s_size * s_price <= s_amount
           /\ rounded < s_min => s_size = 0

\* Steps a close_position call at this position still has to take.
CloseRank(p) ==
    CASE p = "cp_ticker" -> 3
      [] p = "cp_order" -> 2
      [] p = "cp_finish" -> 1
      [] OTHER -> 0

\* Upper bound on the steps the task of emergency_close_all_positions still
\* has to take: the closes of the ids left in its snapshot, the final
\* notification, nothing once it has ended or was cancelled.
EmergencyRank ==
    LET p == pc["emergency"]
    IN CASE p \in {"em_done", "cancelled"} -> 0
         [] p = "em_notify" -> 1
         [] p \in {"cp_ticker", "cp_order", "cp_finish"} ->
                1 + 4 * (Len(items["emergency"]) - pos["emergency"]) + CloseRank(p)
         [] OTHER -> 4 * MaxOrders + 6

\* Upper bound on the steps monitor_funding_rates still has to take in a
\* cycle that is its last: the rest of the entry pass, the exit pass, the
\* closing awaits and the loop test.
MonitorRank ==
    LET p == pc["monitor"]
        exitBase == 4 * MaxOrders + 5
        entry(k) == exitBase + 5 * (TOP_PAIRS_COUNT - idx) + k
    IN CASE p = "done" -> 0
         [] p = "sleep" -> 1
         [] p \in {"cp_ticker", "cp_order", "cp_finish"} ->
                1 + 4 * (Len(items["monitor"]) - pos["monitor"]) + CloseRank(p)
         [] p = "open_notify" -> entry(1)
         [] p = "open_order" -> entry(2)
         [] p = "open_ticker" -> entry(3)
         [] p = "size" -> entry(4)
         [] OTHER -> exitBase + 5 * TOP_PAIRS_COUNT + 5

StopRank == MonitorRank + EmergencyRank

\* C32: after a stop signal the process always terminates, also when every
\* emergency close fails and the notifications are not delivered: while
\* should_run is False and a task is left the event loop has a step to
\* run, and every step brings the end nearer.
C32_StopTerminates ==
    /\ [](~should_run => (ProcessExited \/ ENABLED Next))
    /\ [][~should_run => /\ StopRank' < StopRank
                         /\ StopRank' = 0 <=> ProcessExited']_vars

\* The process has exited after an emergency close-all whose attempts failed:
\* a position it tried to close is still Open in the ledger.
C32_Witness ==
    /\ ProcessExited
    /\ pc["emergency"] = "em_done"
    /\ \E o \in em_open : o \in Range(active_trades) /\ ~trades[o].closed

\* The order id whose close_position call the monitor's exit pass is in.
MonitorClosing == items["monitor"][pos["monitor"]]

\* The monitor is inside a close_position call of its exit pass.
InExitPass(p) == p["monitor"] \in {"cp_ticker", "cp_order", "cp_finish"}

\* C33: the exit pass leaves an Open position alone when its symbol is not in
\* the schedule snapshot of the cycle: the monitor is inside close_position
\* (the only place where it places a close order and updates the statistics)
\* only for a position whose symbol the snapshot holds, and no step of the
\* monitor in its exit pass changes the record, the ledger entry or the
\* funding_collected flag of an Open position whose symbol the snapshot lacks.
C33_AbsentSymbolUntouched ==
    /\ [](InExitPass(pc) =>
            SymbolData(funding_df, trades[MonitorClosing].symbol) # <<>>)
    /\ [][\A o \in Range(active_trades) :
            (/\ InExitPass(pc) \/ InExitPass(pc')
             /\ <<pc["monitor"], pos["monitor"]>> # <<pc'["monitor"], pos'["monitor"]>>
             /\ ~trades[o].closed
             /\ InExitPass(pc) => SymbolData(funding_df, trades[o].symbol) = <<>>
             /\ InExitPass(pc') => SymbolData(funding_df', trades[o].symbol) = <<>>)
            => /\ trades'[o] = trades[o]
               /\ o \in Range(active_trades')
               /\ o \in funding_collected' <=> o \in funding_collected]_vars

\* The exit pass has passed by an Open position whose symbol the snapshot
\* does not hold and is closing the next one.
C33_Witness ==
    /\ pc["monitor"] = "cp_ticker"
    /\ \E k \in 1..(pos["monitor"] - 1) :
          LET o == items["monitor"][k]
          IN /\ o \in Range(active_trades)
             /\ ~trades[o].closed
             /\ SymbolData(funding_df, trades[o].symbol) = <<>>

\* C34: publishing the status or the schedule changes nothing in the ledger
\* or the statistics, whether the write succeeds or fails.
C34_PublishLeavesLedger ==
    [][/\ p_active_trades' = p_active_trades
       /\ p_statistics' = p_statistics]_vars

\* The status of a ledger with a position was published and a later
\* publication of the schedule failed half way.
C34_Witness ==
    /\ Len(p_active_trades) > 0
    /\ p_files.bot_status.state = "written"
    /\ p_files.funding_rates.state = "partial"

\* C35: the notification "all positions closed" of line 510 is sent only if
\* no Open position remains in the ledger when the loop of
\* emergency_close_all_positions has finished.
C35_AllClosedOnlyIfNoneOpen ==
    [][(pc["emergency"] # "em_notify" /\ pc'["emergency"] = "em_notify") =>
          \A o \in Range(active_trades') : trades'[o].closed]_vars

\* C36: when the balance query fails the recorded balance keeps the value
\* that was last fetched successfully, and the status published afterwards
\* shows that value.
C36_FailedQueryKeepsBalance ==
    b_fetched # <<>> =>
        /\ balance = b_fetched[Len(b_fetched)]
        /\ b_published[Len(b_published)] = b_fetched[Len(b_fetched)]

\* C37: after the operator has confirmed the emergency stop in Telegram the
\* trading bot stops trading (its open positions are closed and none is
\* added): from the confirmation on no position is opened.
C37_ConfirmStopStopsTrading ==
    [][tg_message = "stopped" => Len(trades') = Len(trades)]_vars

\* C38: once the trading bot has published its status, bot_status.json holds
\* the bot's most recent balance, positions and statistics at every later
\* moment, whatever the controller and the Telegram process write.
C38_StatusKeepsBotData ==
    published > 0 => status_file.data = published

\* monitor_processes is running.
Supervising == c_pc \in {"check_telegram", "check_trading", "write_status", "sleep"}

\* C40: while the controller supervises, a process that is not running is
\* one that its next check replaces -- also when the start or the restart
\* before failed to spawn.
C40_TerminatedIsRestarted ==
    Supervising =>
        /\ telegram_process # "running" => RestartDue(telegram_process)
        /\ trading_process # "running" => RestartDue(trading_process)

\* C39: in the second monitor loop a position whose close attempt failed
\* stays in the ledger and is attempted again in a later cycle in which its
\* exit condition holds: when the exit pass comes to such a position, it
\* calls close_position for it.
C39_DualFailedCloseRetried ==
    [][(/\ d_pc = "exit"
        /\ d_items # <<>>
        /\ d_items' # d_items
        /\ d_attempts[Head(d_items)] > 0
        /\ Head(d_items) \in DOMAIN d_active_trades
        /\ d_active_trades[Head(d_items)].symbol \in d_due)
       => d_attempts'[Head(d_items)] = d_attempts[Head(d_items)] + 1]_vars

====
